---- MODULE Spec2Model ----
(***************************************************************************)
(* A model of package xmap (map.go): a map guarded by one sync.RWMutex,    *)
(* whose entries carry an optional expiration time, with a background      *)
(* cleanup goroutine driven by a ticker and a one-shot Stop.               *)
(*                                                                         *)
(* A method is split at the points where another goroutine can interleave  *)
(* observably: a read of the time source made outside the lock, an atomic  *)
(* operation, a channel operation, and each critical section of m.mu.  A   *)
(* critical section that a method enters and leaves without yielding to    *)
(* its caller is one step: Lock, the body, Unlock.  The scan of            *)
(* RemoveExpired is one step per key, because every call of m.expired      *)
(* reads the time source again.                                            *)
(***************************************************************************)
EXTENDS Integers, FiniteSets, TLC

\* ---------------------------------------------------------------- bounds
\* The clock runs from 1 to MaxTime.
MaxTime == 3
\* The ttl arguments of Set range over -1 .. MaxTTL.
MaxTTL == 1
\* The number of method calls made in one behaviour: by one caller, and by
\* two concurrent callers.
MaxOps == 3
MaxConcOps == 2
\* The number of calls made in one behaviour of the fair specification.
MaxLiveOps == 2

\* ------------------------------------------------------------- constants
\* time.Time{}: the zero time, an entry that never expires.
ZeroTime == 0
\* The zero value of V returned for a missing key.
ZeroValue == 0

Keys == {"a", "b"}
Values == {1, 2}
TTLs == (0 - 1)..MaxTTL
Callers == {"c1", "c2"}
Sweeper == "sw"
Procs == Callers \cup {Sweeper}
NoProc == "none"
NoKey == "-"

VARIABLES
    kv,        \* m.kv: a function from the keys present to their entries
    now,       \* the time source's current time
    readers,   \* m.mu: the goroutines holding the read lock
    stopped,   \* m.stopped
    stopCh,    \* m.stop: "open" or "closed"
    active,    \* m.active
    tickCh,    \* the ticker's channel (capacity 1): number of ticks buffered
    tickerOn,  \* the ticker created by cleanup is running
    pc,        \* where each goroutine is
    loc,       \* each goroutine's arguments and local variables
    ret,       \* the results of the call the last step returned from, if any
    ops,       \* number of calls the callers may still start
    lastSet,   \* history: per key, the entry written by the last Set that
               \* no Delete, Clear or Stop has followed, with the value
               \* the last successful Update gave it
    closes,    \* history: number of times Stop closed m.stop
    clears     \* history: number of times Stop replaced m.kv

vars == <<kv, now, readers, stopped, stopCh, active, tickCh, tickerOn,
          pc, loc, ret, ops, lastSet, closes, clears>>

\* ------------------------------------------------------------------ data
\* entry[V]
entry(value, exp) == [value |-> value, exp |-> exp]

\* todo: the keys a range loop has still to visit; expired: the keys
\* RemoveExpired has collected; yielded, count: the pairs All has passed to
\* yield and the number of calls of yield.
NoLoc == [key |-> NoKey, value |-> ZeroValue, exp |-> ZeroTime,
          todo |-> {}, expired |-> {}, yielded |-> {}, count |-> 0]

\* ok, value, exp, n are the results of the call; for Set and Delete, which
\* return nothing, ok records whether the key was in the map before.
\* nowInLock tells whether the call read m.time.Now() inside a section of
\* the write lock.
NoRet == [op |-> "none", key |-> NoKey, ok |-> FALSE,
          value |-> ZeroValue, exp |-> ZeroTime, n |-> 0, nowInLock |-> FALSE]

NoLast == [set |-> FALSE, value |-> ZeroValue, exp |-> ZeroTime]

\* m.kv[k] = e
put(m, k, e) == [x \in (DOMAIN m) \cup {k} |-> IF x = k THEN e ELSE m[x]]

\* delete(m.kv, k) for every k of ks
remove(m, ks) == [x \in (DOMAIN m) \ ks |-> m[x]]

\* make(map[K]*entry[V]): the empty map.
emptyMap == [x \in {} |-> entry(ZeroValue, ZeroTime)]

\* The comparison with the boundary on the wrong side: expired at the
\* expiration time itself.
expiredAtOrAfter(e, t) == e.exp # ZeroTime /\ t >= e.exp

\* Set computing an expiration time for every ttl other than zero.
expiryNonZero(t, ttl) == IF ttl # 0 THEN t + ttl ELSE ZeroTime

\* Set, line 117-121: exp is the zero time.Time unless ttl > 0, and then
\* m.time.Now().Add(ttl), t being the value m.time.Now() returns.
expiry(t, ttl) == IF ttl > 0 THEN t + ttl ELSE ZeroTime

\* Map.expired, with t the value m.time.Now() returns.
expired(e, t) == e.exp # ZeroTime /\ t > e.exp

\* sync.RWMutex: Lock succeeds when nobody holds the lock; a write section
\* is a single step, so the lock is held across steps by readers only, and
\* RLock always succeeds between steps.
CanLock == readers = {}

\* A caller is between calls and may start one.
Idle(p) == p \in Callers /\ pc[p] = "idle" /\ ops > 0

\* Where a goroutine continues when RemoveExpired returns.
After(p) == IF p = Sweeper THEN "select" ELSE "idle"

\* --------------------------------------------------------------- initial
\* NewWithConfig: an empty map, an open stop channel, the cleanup goroutine
\* spawned but not yet run.
InitWith(budget) ==
    /\ kv = emptyMap
    /\ now = 1
    /\ readers = {}
    /\ stopped = 0
    /\ stopCh = "open"
    /\ active = 0
    /\ tickCh = 0
    /\ tickerOn = FALSE
    /\ pc = [p \in Procs |-> IF p = Sweeper THEN "start" ELSE "idle"]
    /\ loc = [p \in Procs |-> NoLoc]
    /\ ret = NoRet
    /\ ops = budget
    /\ lastSet = [k \in Keys |-> NoLast]
    /\ closes = 0
    /\ clears = 0

Init == InitWith(MaxOps)

\* ------------------------------------------------------------------- Set
\* Set, line 117-121: the expiration time is computed from m.time.Now()
\* before the lock is requested.
SetNow(p, k, v, ttl) ==
    /\ Idle(p)
    /\ pc' = [pc EXCEPT ![p] = "set_store"]
    /\ loc' = [loc EXCEPT ![p] = [NoLoc EXCEPT !.key = k, !.value = v,
                  !.exp = expiry(now, ttl)]]
    /\ ops' = ops - 1
    /\ ret' = NoRet
    /\ UNCHANGED <<kv, now, readers, stopped, stopCh, active, tickCh,
                   tickerOn, lastSet, closes, clears>>

\* Set keeping the expiration time of the entry it replaces.
SetStoreKeepsExpiry(p) ==
    /\ pc[p] = "set_store"
    /\ CanLock
    /\ LET k == loc[p].key
           had == k \in DOMAIN kv
       IN /\ kv' = put(kv, k, entry(loc[p].value,
                                    IF had THEN kv[k].exp ELSE loc[p].exp))
          /\ ret' = [NoRet EXCEPT !.op = "Set", !.key = k, !.ok = had,
                        !.value = IF had THEN kv[k].value ELSE ZeroValue,
                        !.exp = IF had THEN kv[k].exp ELSE ZeroTime]
    /\ lastSet' = lastSet
    /\ pc' = [pc EXCEPT ![p] = "idle"]
    /\ loc' = [loc EXCEPT ![p] = NoLoc]
    /\ UNCHANGED <<now, readers, stopped, stopCh, active, tickCh, tickerOn,
                   ops, closes, clears>>

\* Set on a lock that lets in the goroutine that holds the read lock: the
\* store of a Set called from the body of a loop goes through, and the
\* call returns into the body.
SetStoreReentrant(p) ==
    /\ pc[p] = "set_store"
    /\ readers \subseteq {p}
    /\ LET k == loc[p].key
           had == k \in DOMAIN kv
       IN /\ kv' = put(kv, k, entry(loc[p].value, loc[p].exp))
          /\ lastSet' = [lastSet EXCEPT ![k] =
                [set |-> TRUE, value |-> loc[p].value, exp |-> loc[p].exp]]
          /\ ret' = [NoRet EXCEPT !.op = "Set", !.key = k, !.ok = had,
                        !.value = IF had THEN kv[k].value ELSE ZeroValue,
                        !.exp = IF had THEN kv[k].exp ELSE ZeroTime]
    /\ pc' = [pc EXCEPT ![p] = IF p \in readers THEN "all_yield" ELSE "idle"]
    /\ loc' = [loc EXCEPT ![p] =
                  IF p \in readers
                  THEN [@ EXCEPT !.key = NoKey, !.value = ZeroValue,
                                 !.exp = ZeroTime]
                  ELSE NoLoc]
    /\ UNCHANGED <<now, readers, stopped, stopCh, active, tickCh, tickerOn,
                   ops, closes, clears>>

\* Set, line 123-125: Lock; m.kv[key] = &entry[V]{value, exp}; Unlock.
\* Set returns nothing: ret records the entry the call replaced, if any.
SetStore(p) ==
    /\ pc[p] = "set_store"
    /\ CanLock
    /\ LET k == loc[p].key
           had == k \in DOMAIN kv
       IN /\ kv' = put(kv, k, entry(loc[p].value, loc[p].exp))
          /\ lastSet' = [lastSet EXCEPT ![k] =
                [set |-> TRUE, value |-> loc[p].value, exp |-> loc[p].exp]]
          /\ ret' = [NoRet EXCEPT !.op = "Set", !.key = k, !.ok = had,
                        !.value = IF had THEN kv[k].value ELSE ZeroValue,
                        !.exp = IF had THEN kv[k].exp ELSE ZeroTime]
    /\ pc' = [pc EXCEPT ![p] = "idle"]
    /\ loc' = [loc EXCEPT ![p] = NoLoc]
    /\ UNCHANGED <<now, readers, stopped, stopCh, active, tickCh, tickerOn,
                   ops, closes, clears>>

\* ---------------------------------------------------------------- Update
\* Update with the expiry check left out.
UpdateIgnoringExpiry(p, k, v) ==
    /\ Idle(p)
    /\ CanLock
    /\ LET hit == k \in DOMAIN kv
       IN /\ kv' = IF hit THEN put(kv, k, entry(v, kv[k].exp)) ELSE kv
          /\ lastSet' = lastSet
          /\ ret' = [NoRet EXCEPT !.op = "Update", !.key = k, !.value = v,
                                  !.ok = hit]
    /\ ops' = ops - 1
    /\ UNCHANGED <<now, readers, stopped, stopCh, active, tickCh, tickerOn,
                   pc, loc, closes, clears>>

\* Update storing a fresh entry, as Set does, instead of assigning the value.
UpdateResetsExpiry(p, k, v) ==
    /\ Idle(p)
    /\ CanLock
    /\ LET hit == k \in DOMAIN kv /\ ~expired(kv[k], now)
       IN /\ kv' = IF hit THEN put(kv, k, entry(v, ZeroTime)) ELSE kv
          /\ lastSet' = lastSet
          /\ ret' = [NoRet EXCEPT !.op = "Update", !.key = k, !.value = v,
                                  !.ok = hit]
    /\ ops' = ops - 1
    /\ UNCHANGED <<now, readers, stopped, stopCh, active, tickCh, tickerOn,
                   pc, loc, closes, clears>>

\* Update storing the value under a key that is not in the map, and
\* reporting false as it does for a key it did not find.
UpdateCreates(p, k, v) ==
    /\ Idle(p)
    /\ CanLock
    /\ LET hit == k \in DOMAIN kv /\ ~expired(kv[k], now)
       IN /\ kv' = IF hit THEN put(kv, k, entry(v, kv[k].exp))
                   ELSE IF k \notin DOMAIN kv
                        THEN put(kv, k, entry(v, ZeroTime)) ELSE kv
          /\ lastSet' = IF hit /\ lastSet[k].set
                        THEN [lastSet EXCEPT ![k].value = v]
                        ELSE lastSet
          /\ ret' = [NoRet EXCEPT !.op = "Update", !.key = k, !.value = v,
                        !.ok = hit,
                        !.nowInLock = (k \in DOMAIN kv
                                         /\ kv[k].exp # ZeroTime)]
    /\ ops' = ops - 1
    /\ UNCHANGED <<now, readers, stopped, stopCh, active, tickCh, tickerOn,
                   pc, loc, closes, clears>>

\* Update, line 131-140: under the write lock, the value is replaced when
\* the key is present and not expired at m.time.Now(): m.expired is called
\* for a key that is present, and calls m.time.Now() when the entry has an
\* expiration time, inside the section.  ret.value is the value argument.
Update(p, k, v) ==
    /\ Idle(p)
    /\ CanLock
    /\ LET hit == k \in DOMAIN kv /\ ~expired(kv[k], now)
       IN /\ kv' = IF hit THEN put(kv, k, entry(v, kv[k].exp)) ELSE kv
          /\ lastSet' = IF hit /\ lastSet[k].set
                        THEN [lastSet EXCEPT ![k].value = v]
                        ELSE lastSet
          /\ ret' = [NoRet EXCEPT !.op = "Update", !.key = k, !.value = v,
                        !.ok = hit,
                        !.nowInLock = (k \in DOMAIN kv
                                         /\ kv[k].exp # ZeroTime)]
    /\ ops' = ops - 1
    /\ UNCHANGED <<now, readers, stopped, stopCh, active, tickCh, tickerOn,
                   pc, loc, closes, clears>>

\* ------------------------------------------------------------------- Get
\* Get deleting the expired entry it finds.
GetRemovesExpired(p, k) ==
    /\ Idle(p)
    /\ CanLock
    /\ LET hit == k \in DOMAIN kv /\ ~expired(kv[k], now)
       IN /\ ret' = [NoRet EXCEPT !.op = "Get", !.key = k, !.ok = hit,
                        !.value = IF hit THEN kv[k].value ELSE ZeroValue]
          /\ kv' = IF hit THEN kv ELSE remove(kv, {k})
    /\ ops' = ops - 1
    /\ UNCHANGED <<now, readers, stopped, stopCh, active, tickCh, tickerOn,
                   pc, loc, lastSet, closes, clears>>

\* Get, line 145-155, under the read lock.
Get(p, k) ==
    /\ Idle(p)
    /\ LET hit == k \in DOMAIN kv /\ ~expired(kv[k], now)
       IN ret' = [NoRet EXCEPT !.op = "Get", !.key = k, !.ok = hit,
                     !.value = IF hit THEN kv[k].value ELSE ZeroValue]
    /\ ops' = ops - 1
    /\ UNCHANGED <<kv, now, readers, stopped, stopCh, active, tickCh, tickerOn,
                   pc, loc, lastSet, closes, clears>>

\* GetWithExpiration with the expiry check left out.
GetWithExpirationNoExpiry(p, k) ==
    /\ Idle(p)
    /\ LET hit == k \in DOMAIN kv
       IN ret' = [NoRet EXCEPT !.op = "GetWithExpiration",
                     !.key = k, !.ok = hit,
                     !.value = IF hit THEN kv[k].value ELSE ZeroValue,
                     !.exp = IF hit THEN kv[k].exp ELSE ZeroTime]
    /\ ops' = ops - 1
    /\ UNCHANGED <<kv, now, readers, stopped, stopCh, active, tickCh, tickerOn,
                   pc, loc, lastSet, closes, clears>>

\* GetWithExpiration pushing back the expiration time of the entry it
\* finds (a sliding expiration).
GetWithExpirationRenews(p, k) ==
    /\ Idle(p)
    /\ LET hit == k \in DOMAIN kv /\ ~expired(kv[k], now)
       IN /\ ret' = [NoRet EXCEPT !.op = "GetWithExpiration",
                        !.key = k, !.ok = hit,
                        !.value = IF hit THEN kv[k].value ELSE ZeroValue,
                        !.exp = IF hit THEN kv[k].exp ELSE ZeroTime]
          /\ kv' = IF hit /\ kv[k].exp # ZeroTime
                   THEN put(kv, k, entry(kv[k].value, now + 1))
                   ELSE kv
    /\ ops' = ops - 1
    /\ UNCHANGED <<now, readers, stopped, stopCh, active, tickCh, tickerOn,
                   pc, loc, lastSet, closes, clears>>

\* GetWithExpiration, line 160-170, under the read lock.
GetWithExpiration(p, k) ==
    /\ Idle(p)
    /\ LET hit == k \in DOMAIN kv /\ ~expired(kv[k], now)
       IN ret' = [NoRet EXCEPT !.op = "GetWithExpiration",
                     !.key = k, !.ok = hit,
                     !.value = IF hit THEN kv[k].value ELSE ZeroValue,
                     !.exp = IF hit THEN kv[k].exp ELSE ZeroTime]
    /\ ops' = ops - 1
    /\ UNCHANGED <<kv, now, readers, stopped, stopCh, active, tickCh, tickerOn,
                   pc, loc, lastSet, closes, clears>>

\* ------------------------------------------------------------------- Len
\* Len counting the entries that are not expired.
LenLive(p) ==
    /\ Idle(p)
    /\ ret' = [NoRet EXCEPT !.op = "Len",
                !.n = Cardinality({k \in DOMAIN kv : ~expired(kv[k], now)})]
    /\ ops' = ops - 1
    /\ UNCHANGED <<kv, now, readers, stopped, stopCh, active, tickCh, tickerOn,
                   pc, loc, lastSet, closes, clears>>

\* Len, line 107-111, under the read lock: len(m.kv)
Len(p) ==
    /\ Idle(p)
    /\ ret' = [NoRet EXCEPT !.op = "Len",
                            !.n = Cardinality(DOMAIN kv)]
    /\ ops' = ops - 1
    /\ UNCHANGED <<kv, now, readers, stopped, stopCh, active, tickCh, tickerOn,
                   pc, loc, lastSet, closes, clears>>

\* ------------------------------------------------------------------- All
\* All, line 179-180: the function All returns is called by the range
\* statement of the consumer: m.mu.RLock(), defer m.mu.RUnlock(); the range
\* loop will visit the keys now in the map.
AllRLock(p) ==
    /\ Idle(p)
    /\ ops' = ops - 1
    /\ readers' = readers \cup {p}
    /\ pc' = [pc EXCEPT ![p] = "all_loop"]
    /\ loc' = [loc EXCEPT ![p] = [NoLoc EXCEPT !.todo = DOMAIN kv]]
    /\ ret' = NoRet
    /\ UNCHANGED <<kv, now, stopped, stopCh, active, tickCh, tickerOn,
                   lastSet, closes, clears>>

\* All passing every entry to yield, expired or not.
AllVisitNoExpiry(p) ==
    /\ pc[p] = "all_loop"
    /\ \E k \in loc[p].todo :
          /\ loc' = [loc EXCEPT ![p].todo = @ \ {k},
                                ![p].yielded = @ \cup {<<k, kv[k].value>>},
                                ![p].count = @ + 1]
          /\ pc' = [pc EXCEPT ![p] = "all_yield"]
          /\ ret' = [NoRet EXCEPT !.op = "yield", !.key = k,
                                  !.value = kv[k].value, !.ok = TRUE]
    /\ UNCHANGED <<kv, now, readers, stopped, stopCh, active, tickCh,
                   tickerOn, ops, lastSet, closes, clears>>

\* All, line 182-187: one iteration of the range loop.  An entry that is
\* not expired at m.time.Now() is passed to yield, which runs the body of
\* the consumer's loop; an expired one is skipped.  (A key removed from the
\* map before the loop reaches it is not produced.)
AllVisit(p) ==
    /\ pc[p] = "all_loop"
    /\ \E k \in loc[p].todo :
          IF k \in DOMAIN kv /\ ~expired(kv[k], now)
          THEN /\ loc' = [loc EXCEPT ![p].todo = @ \ {k},
                                     ![p].yielded = @ \cup {<<k, kv[k].value>>},
                                     ![p].count = @ + 1]
               /\ pc' = [pc EXCEPT ![p] = "all_yield"]
               /\ ret' = [NoRet EXCEPT !.op = "yield", !.key = k,
                                       !.value = kv[k].value, !.ok = TRUE]
          ELSE /\ loc' = [loc EXCEPT ![p].todo = @ \ {k}]
               /\ pc' = pc
               /\ ret' = NoRet
    /\ UNCHANGED <<kv, now, readers, stopped, stopCh, active, tickCh,
                   tickerOn, ops, lastSet, closes, clears>>

\* All giving the read lock back after each entry instead of holding it
\* for the whole traversal.
AllContinueUnlocks(p) ==
    /\ pc[p] = "all_yield"
    /\ readers' = readers \ {p}
    /\ pc' = [pc EXCEPT ![p] = "all_loop"]
    /\ ret' = NoRet
    /\ UNCHANGED <<kv, now, stopped, stopCh, active, tickCh,
                   tickerOn, loc, ops, lastSet, closes, clears>>

\* All, line 184: the body of the consumer's loop has ended and yield
\* returns true; the range loop goes on.
AllContinue(p) ==
    /\ pc[p] = "all_yield"
    /\ pc' = [pc EXCEPT ![p] = "all_loop"]
    /\ ret' = NoRet
    /\ UNCHANGED <<kv, now, readers, stopped, stopCh, active, tickCh,
                   tickerOn, loc, ops, lastSet, closes, clears>>

\* All returning, at a break, without running the deferred RUnlock.
AllBreakKeepsLock(p) ==
    /\ pc[p] = "all_yield"
    /\ pc' = [pc EXCEPT ![p] = "idle"]
    /\ ret' = [NoRet EXCEPT !.op = "All", !.ok = FALSE,
                            !.n = loc[p].count]
    /\ loc' = [loc EXCEPT ![p] = NoLoc]
    /\ UNCHANGED <<kv, now, readers, stopped, stopCh, active, tickCh,
                   tickerOn, ops, lastSet, closes, clears>>

\* All, line 184-185: the consumer left its loop (break, return), yield
\* returns false and All returns; the deferred m.mu.RUnlock() runs.
\* ret.n is the number of entries the consumer was given, ret.ok whether
\* the range loop ran to its end.
AllBreak(p) ==
    /\ pc[p] = "all_yield"
    /\ readers' = readers \ {p}
    /\ pc' = [pc EXCEPT ![p] = "idle"]
    /\ ret' = [NoRet EXCEPT !.op = "All", !.ok = FALSE,
                            !.n = loc[p].count]
    /\ loc' = [loc EXCEPT ![p] = NoLoc]
    /\ UNCHANGED <<kv, now, stopped, stopCh, active, tickCh, tickerOn,
                   ops, lastSet, closes, clears>>

\* All returning, at the end of the range loop, without running the
\* deferred RUnlock.
AllReturnKeepsLock(p) ==
    /\ pc[p] = "all_loop"
    /\ loc[p].todo = {}
    /\ pc' = [pc EXCEPT ![p] = "idle"]
    /\ ret' = [NoRet EXCEPT !.op = "All", !.ok = TRUE,
                            !.n = loc[p].count]
    /\ loc' = [loc EXCEPT ![p] = NoLoc]
    /\ UNCHANGED <<kv, now, readers, stopped, stopCh, active, tickCh,
                   tickerOn, ops, lastSet, closes, clears>>

\* All, line 182-189: the range loop is over and All returns; the deferred
\* m.mu.RUnlock() runs.
AllReturn(p) ==
    /\ pc[p] = "all_loop"
    /\ loc[p].todo = {}
    /\ readers' = readers \ {p}
    /\ pc' = [pc EXCEPT ![p] = "idle"]
    /\ ret' = [NoRet EXCEPT !.op = "All", !.ok = TRUE,
                            !.n = loc[p].count]
    /\ loc' = [loc EXCEPT ![p] = NoLoc]
    /\ UNCHANGED <<kv, now, stopped, stopCh, active, tickCh, tickerOn,
                   ops, lastSet, closes, clears>>

\* ---------------------------------------------------------------- Delete
\* Delete leaving an entry that is already expired to the cleanup.
DeleteLiveOnly(p, k) ==
    /\ Idle(p)
    /\ CanLock
    /\ kv' = IF k \in DOMAIN kv /\ expired(kv[k], now) THEN kv
             ELSE remove(kv, {k})
    /\ lastSet' = [lastSet EXCEPT ![k] = NoLast]
    /\ ret' = [NoRet EXCEPT !.op = "Delete", !.key = k,
                            !.ok = k \in DOMAIN kv]
    /\ ops' = ops - 1
    /\ UNCHANGED <<now, readers, stopped, stopCh, active, tickCh, tickerOn,
                   pc, loc, closes, clears>>

\* Delete testing the expiration of the entry before it removes it.
DeleteChecksExpiry(p, k) ==
    /\ Idle(p)
    /\ CanLock
    /\ kv' = remove(kv, {k})
    /\ lastSet' = [lastSet EXCEPT ![k] = NoLast]
    /\ ret' = [NoRet EXCEPT !.op = "Delete", !.key = k,
                            !.ok = k \in DOMAIN kv,
                            !.nowInLock = (k \in DOMAIN kv
                                             /\ kv[k].exp # ZeroTime)]
    /\ ops' = ops - 1
    /\ UNCHANGED <<now, readers, stopped, stopCh, active, tickCh, tickerOn,
                   pc, loc, closes, clears>>

\* Delete, line 193-197: Lock; delete(m.kv, key); Unlock
Delete(p, k) ==
    /\ Idle(p)
    /\ CanLock
    /\ kv' = remove(kv, {k})
    /\ lastSet' = [lastSet EXCEPT ![k] = NoLast]
    /\ ret' = [NoRet EXCEPT !.op = "Delete", !.key = k,
                            !.ok = k \in DOMAIN kv]
    /\ ops' = ops - 1
    /\ UNCHANGED <<now, readers, stopped, stopCh, active, tickCh, tickerOn,
                   pc, loc, closes, clears>>

\* ----------------------------------------------------------------- Clear
\* Clear removing the expired entries only.
ClearExpiredOnly(p) ==
    /\ Idle(p)
    /\ CanLock
    /\ kv' = remove(kv, {k \in DOMAIN kv : expired(kv[k], now)})
    /\ lastSet' = [k \in Keys |-> NoLast]
    /\ ret' = [NoRet EXCEPT !.op = "Clear"]
    /\ ops' = ops - 1
    /\ UNCHANGED <<now, readers, stopped, stopCh, active, tickCh, tickerOn,
                   pc, loc, closes, clears>>

\* Clear making a stopped map usable again by resetting the flag.
ClearResetsStopped(p) ==
    /\ Idle(p)
    /\ CanLock
    /\ kv' = emptyMap
    /\ stopped' = 0
    /\ lastSet' = [k \in Keys |-> NoLast]
    /\ ret' = [NoRet EXCEPT !.op = "Clear"]
    /\ ops' = ops - 1
    /\ UNCHANGED <<now, readers, stopCh, active, tickCh, tickerOn,
                   pc, loc, closes, clears>>

\* Clear, line 200-204: Lock; clear(m.kv); Unlock
Clear(p) ==
    /\ Idle(p)
    /\ CanLock
    /\ kv' = emptyMap
    /\ lastSet' = [k \in Keys |-> NoLast]
    /\ ret' = [NoRet EXCEPT !.op = "Clear"]
    /\ ops' = ops - 1
    /\ UNCHANGED <<now, readers, stopped, stopCh, active, tickCh, tickerOn,
                   pc, loc, closes, clears>>

\* --------------------------------------------------------- RemoveExpired
\* RemoveExpired, line 240: m.mu.RLock(); the range loop will visit the keys
\* now in the map.  A caller starts the call here, the cleanup goroutine
\* arrives from its select.
RemoveExpiredRLock(p) ==
    /\ \/ Idle(p) /\ ops' = ops - 1
       \/ p = Sweeper /\ pc[p] = "re_rlock" /\ ops' = ops
    /\ readers' = readers \cup {p}
    /\ pc' = [pc EXCEPT ![p] = "re_scan"]
    /\ loc' = [loc EXCEPT ![p] = [NoLoc EXCEPT !.todo = DOMAIN kv]]
    /\ ret' = NoRet
    /\ UNCHANGED <<kv, now, stopped, stopCh, active, tickCh, tickerOn,
                   lastSet, closes, clears>>

\* RemoveExpired, line 241-245: one iteration of the range loop; each call
\* of m.expired reads m.time.Now() anew.
RemoveExpiredScan(p) ==
    /\ pc[p] = "re_scan"
    /\ \E k \in loc[p].todo :
          loc' = [loc EXCEPT ![p].todo = @ \ {k},
                             ![p].expired = IF expired(kv[k], now)
                                            THEN @ \cup {k} ELSE @]
    /\ ret' = NoRet
    /\ UNCHANGED <<kv, now, readers, stopped, stopCh, active, tickCh,
                   tickerOn, pc, ops, lastSet, closes, clears>>

\* RemoveExpired going on to Lock without the RUnlock: a second
\* acquisition of m.mu by the goroutine that holds it.
RemoveExpiredNoRUnlock(p) ==
    /\ pc[p] = "re_scan"
    /\ loc[p].todo = {}
    /\ pc' = [pc EXCEPT ![p] = "re_delete"]
    /\ ret' = NoRet
    /\ UNCHANGED <<kv, now, readers, stopped, stopCh, active, tickCh,
                   tickerOn, loc, ops, lastSet, closes, clears>>

\* RemoveExpired, line 246: m.mu.RUnlock() once the loop is over.
RemoveExpiredRUnlock(p) ==
    /\ pc[p] = "re_scan"
    /\ loc[p].todo = {}
    /\ readers' = readers \ {p}
    /\ pc' = [pc EXCEPT ![p] = "re_delete"]
    /\ ret' = NoRet
    /\ UNCHANGED <<kv, now, stopped, stopCh, active, tickCh, tickerOn, loc,
                   ops, lastSet, closes, clears>>

\* RemoveExpired deleting the collected keys without taking the write lock.
RemoveExpiredDeleteNoLock(p) ==
    /\ pc[p] = "re_delete"
    /\ kv' = remove(kv, loc[p].expired)
    /\ pc' = [pc EXCEPT ![p] = After(p)]
    /\ ret' = IF p = Sweeper THEN NoRet
              ELSE [NoRet EXCEPT !.op = "RemoveExpired",
                                 !.n = Cardinality(loc[p].expired)]
    /\ loc' = [loc EXCEPT ![p] = NoLoc]
    /\ UNCHANGED <<now, readers, stopped, stopCh, active, tickCh, tickerOn,
                   ops, lastSet, closes, clears>>

\* RemoveExpired leaving its deletion loop after the first key.
RemoveExpiredDeleteFirst(p) ==
    /\ pc[p] = "re_delete"
    /\ CanLock
    /\ kv' = IF loc[p].expired = {} THEN kv
             ELSE remove(kv, {CHOOSE k \in loc[p].expired : TRUE})
    /\ pc' = [pc EXCEPT ![p] = After(p)]
    /\ ret' = IF p = Sweeper THEN NoRet
              ELSE [NoRet EXCEPT !.op = "RemoveExpired",
                                 !.n = Cardinality(loc[p].expired)]
    /\ loc' = [loc EXCEPT ![p] = NoLoc]
    /\ UNCHANGED <<now, readers, stopped, stopCh, active, tickCh, tickerOn,
                   ops, lastSet, closes, clears>>

\* RemoveExpired testing each collected key again before it deletes it.
RemoveExpiredDeleteRevalidates(p) ==
    /\ pc[p] = "re_delete"
    /\ CanLock
    /\ kv' = remove(kv, {k \in loc[p].expired \cap DOMAIN kv :
                            expired(kv[k], now)})
    /\ pc' = [pc EXCEPT ![p] = After(p)]
    /\ ret' = IF p = Sweeper THEN NoRet
              ELSE [NoRet EXCEPT !.op = "RemoveExpired",
                                 !.n = Cardinality(loc[p].expired)]
    /\ loc' = [loc EXCEPT ![p] = NoLoc]
    /\ UNCHANGED <<now, readers, stopped, stopCh, active, tickCh, tickerOn,
                   ops, lastSet, closes, clears>>

\* RemoveExpired, line 249-255: Lock; delete every collected key; Unlock;
\* return len(expired).  The cleanup goroutine discards the result.
RemoveExpiredDelete(p) ==
    /\ pc[p] = "re_delete"
    /\ CanLock
    /\ kv' = remove(kv, loc[p].expired)
    /\ pc' = [pc EXCEPT ![p] = After(p)]
    /\ ret' = IF p = Sweeper THEN NoRet
              ELSE [NoRet EXCEPT !.op = "RemoveExpired",
                                 !.n = Cardinality(loc[p].expired)]
    /\ loc' = [loc EXCEPT ![p] = NoLoc]
    /\ UNCHANGED <<now, readers, stopped, stopCh, active, tickCh, tickerOn,
                   ops, lastSet, closes, clears>>

\* ------------------------------------------------------------------ Stop
\* Stop setting the flag without testing it.
StopStoreOnly(p) ==
    /\ Idle(p)
    /\ ops' = ops - 1
    /\ stopped' = 1
    /\ pc' = [pc EXCEPT ![p] = "stop_close"]
    /\ ret' = NoRet
    /\ UNCHANGED <<kv, now, readers, stopCh, active, tickCh,
                   tickerOn, loc, lastSet, closes, clears>>

\* Stop, line 82: m.stopped.CompareAndSwap(0, 1); the call that loses
\* returns at once.
StopCAS(p) ==
    /\ Idle(p)
    /\ ops' = ops - 1
    /\ IF stopped = 0
       THEN /\ stopped' = 1
            /\ pc' = [pc EXCEPT ![p] = "stop_close"]
            /\ ret' = NoRet
       ELSE /\ stopped' = stopped
            /\ pc' = pc
            /\ ret' = [NoRet EXCEPT !.op = "Stop"]
    /\ UNCHANGED <<kv, now, readers, stopCh, active, tickCh,
                   tickerOn, loc, lastSet, closes, clears>>

\* Stop, line 84: close(m.stop); closing a closed channel panics, which
\* ends the program.
StopClose(p) ==
    /\ pc[p] = "stop_close"
    /\ IF stopCh = "closed"
       THEN /\ pc' = [q \in Procs |-> "panic"]
            /\ UNCHANGED <<stopCh, closes>>
       ELSE /\ stopCh' = "closed"
            /\ closes' = closes + 1
            /\ pc' = [pc EXCEPT ![p] = "stop_clear"]
    /\ UNCHANGED <<kv, now, readers, stopped, active, tickCh,
                   tickerOn, loc, ret, ops, lastSet, clears>>

\* Stop removing the expired entries only.
StopRemovesExpired(p) ==
    /\ pc[p] = "stop_clear"
    /\ CanLock
    /\ kv' = remove(kv, {k \in DOMAIN kv : expired(kv[k], now)})
    /\ clears' = clears + 1
    /\ lastSet' = [k \in Keys |-> NoLast]
    /\ pc' = [pc EXCEPT ![p] = "idle"]
    /\ ret' = [NoRet EXCEPT !.op = "Stop", !.ok = TRUE]
    /\ UNCHANGED <<now, readers, stopped, stopCh, active, tickCh, tickerOn,
                   loc, ops, closes>>

\* Stop leaving the map as it is.
StopKeepsMap(p) ==
    /\ pc[p] = "stop_clear"
    /\ CanLock
    /\ clears' = clears + 1
    /\ pc' = [pc EXCEPT ![p] = "idle"]
    /\ ret' = [NoRet EXCEPT !.op = "Stop", !.ok = TRUE]
    /\ UNCHANGED <<kv, now, readers, stopped, stopCh, active, tickCh, tickerOn,
                   loc, ops, lastSet, closes>>

\* Stop, line 87-89: Lock; m.kv = make(map[K]*entry[V]); Unlock
StopClear(p) ==
    /\ pc[p] = "stop_clear"
    /\ CanLock
    /\ kv' = emptyMap
    /\ clears' = clears + 1
    /\ lastSet' = [k \in Keys |-> NoLast]
    /\ pc' = [pc EXCEPT ![p] = "idle"]
    /\ ret' = [NoRet EXCEPT !.op = "Stop", !.ok = TRUE]
    /\ UNCHANGED <<now, readers, stopped, stopCh, active, tickCh, tickerOn,
                   loc, ops, closes>>

\* Stopped, line 96-98
Stopped == stopped = 1

\* CleanupActive, line 228-230
CleanupActive == active = 1

\* A call of Stopped: an atomic load, no lock.
StoppedCall(p) ==
    /\ Idle(p)
    /\ ret' = [NoRet EXCEPT !.op = "Stopped", !.ok = Stopped]
    /\ ops' = ops - 1
    /\ UNCHANGED <<kv, now, readers, stopped, stopCh, active, tickCh, tickerOn,
                   pc, loc, lastSet, closes, clears>>

\* A call of CleanupActive: an atomic load, no lock.
CleanupActiveCall(p) ==
    /\ Idle(p)
    /\ ret' = [NoRet EXCEPT !.op = "CleanupActive", !.ok = CleanupActive]
    /\ ops' = ops - 1
    /\ UNCHANGED <<kv, now, readers, stopped, stopCh, active, tickCh, tickerOn,
                   pc, loc, lastSet, closes, clears>>

\* --------------------------------------------------------------- cleanup
\* cleanup, line 210-215: create the ticker, set the active flag.
cleanupStart ==
    /\ pc[Sweeper] = "start"
    /\ tickerOn' = TRUE
    /\ active' = 1
    /\ pc' = [pc EXCEPT ![Sweeper] = "select"]
    /\ ret' = NoRet
    /\ UNCHANGED <<kv, now, readers, stopped, stopCh, tickCh, loc, ops,
                   lastSet, closes, clears>>

\* cleanup returning without the deferred m.active.Store(0).
cleanupStopKeepsActive ==
    /\ pc[Sweeper] = "select"
    /\ stopCh = "closed"
    /\ tickerOn' = FALSE
    /\ pc' = [pc EXCEPT ![Sweeper] = "exited"]
    /\ ret' = NoRet
    /\ UNCHANGED <<kv, now, readers, stopped, stopCh, active, tickCh, loc,
                   ops, lastSet, closes, clears>>

\* cleanup starting over when the stop case is taken, instead of returning.
cleanupStopRestarts ==
    /\ pc[Sweeper] = "select"
    /\ stopCh = "closed"
    /\ active' = 0
    /\ tickerOn' = FALSE
    /\ pc' = [pc EXCEPT ![Sweeper] = "start"]
    /\ ret' = NoRet
    /\ UNCHANGED <<kv, now, readers, stopped, stopCh, tickCh, loc, ops,
                   lastSet, closes, clears>>

\* cleanup, line 219-220: the select takes the stop case, which is ready
\* once m.stop is closed; the deferred calls clear the flag and stop the
\* ticker.
cleanupStop ==
    /\ pc[Sweeper] = "select"
    /\ stopCh = "closed"
    /\ active' = 0
    /\ tickerOn' = FALSE
    /\ pc' = [pc EXCEPT ![Sweeper] = "exited"]
    /\ ret' = NoRet
    /\ UNCHANGED <<kv, now, readers, stopped, stopCh, tickCh, loc, ops,
                   lastSet, closes, clears>>

\* cleanup receiving the tick without calling RemoveExpired.
cleanupTickDropped ==
    /\ pc[Sweeper] = "select"
    /\ tickCh = 1
    /\ tickCh' = 0
    /\ ret' = NoRet
    /\ UNCHANGED <<kv, now, readers, stopped, stopCh, active, tickerOn, pc,
                   loc, ops, lastSet, closes, clears>>

\* cleanup, line 221-222: the select takes the tick case, which is ready
\* when a tick is buffered.  When both cases are ready select picks either.
cleanupTick ==
    /\ pc[Sweeper] = "select"
    /\ tickCh = 1
    /\ tickCh' = 0
    /\ pc' = [pc EXCEPT ![Sweeper] = "re_rlock"]
    /\ ret' = NoRet
    /\ UNCHANGED <<kv, now, readers, stopped, stopCh, active, tickerOn, loc,
                   ops, lastSet, closes, clears>>

\* ----------------------------------------------------------- time source
\* The clock moves forward (mockTime.Advance; the system clock).
Advance ==
    /\ now < MaxTime
    /\ now' = now + 1
    /\ ret' = NoRet
    /\ UNCHANGED <<kv, readers, stopped, stopCh, active, tickCh, tickerOn,
                   pc, loc, ops, lastSet, closes, clears>>

\* The running ticker delivers a tick into its one-slot channel.
Tick ==
    /\ tickerOn
    /\ tickCh = 0
    /\ tickCh' = 1
    /\ ret' = NoRet
    /\ UNCHANGED <<kv, now, readers, stopped, stopCh, active, tickerOn, pc,
                   loc, ops, lastSet, closes, clears>>

\* ------------------------------------------------------------------ Next
\* The steps of the program when the goroutines of C call the methods.
Step(C) ==
    \/ \E p \in C, k \in Keys, v \in Values, ttl \in TTLs : SetNow(p, k, v, ttl)
    \/ \E p \in C : SetStore(p)
    \/ \E p \in C, k \in Keys, v \in Values : Update(p, k, v)
    \/ \E p \in C, k \in Keys : Get(p, k)
    \/ \E p \in C, k \in Keys : GetWithExpiration(p, k)
    \/ \E p \in C : Len(p)
    \/ \E p \in C : AllRLock(p)
    \/ \E p \in C : AllVisit(p)
    \/ \E p \in C : AllContinue(p)
    \/ \E p \in C : AllBreak(p)
    \/ \E p \in C : AllReturn(p)
    \/ \E p \in C, k \in Keys : Delete(p, k)
    \/ \E p \in C : Clear(p)
    \/ \E p \in C \cup {Sweeper} : RemoveExpiredRLock(p)
    \/ \E p \in C \cup {Sweeper} : RemoveExpiredScan(p)
    \/ \E p \in C \cup {Sweeper} : RemoveExpiredRUnlock(p)
    \/ \E p \in C \cup {Sweeper} : RemoveExpiredDelete(p)
    \/ \E p \in C : StopCAS(p)
    \/ \E p \in C : StopClose(p)
    \/ \E p \in C : StopClear(p)
    \/ \E p \in C : StoppedCall(p)
    \/ \E p \in C : CleanupActiveCall(p)
    \/ cleanupStart
    \/ cleanupStop
    \/ cleanupTick
    \/ Advance
    \/ Tick

\* One calling goroutine beside the cleanup goroutine.
Next == Step({"c1"})

Spec == Init /\ [][Next]_vars

\* Two calling goroutines beside the cleanup goroutine.
NextConc == Step(Callers)

SpecConc == InitWith(MaxConcOps) /\ [][NextConc]_vars

\* One call at a time: while a goroutine is inside a call, every step is a
\* step of that call, and the clock and the ticker stand still.
InCall(p) == pc[p] \notin {"idle", "start", "select", "exited", "panic"}

NextSeq ==
    /\ Next
    /\ \A q \in Procs : InCall(q) => <<pc[q], loc[q]>>' # <<pc[q], loc[q]>>

SpecSeq == Init /\ [][NextSeq]_vars

\* ------------------------------------------------------------- scheduling
\* The steps of the cleanup goroutine other than leaving through the stop
\* case.
cleanupStep ==
    \/ cleanupStart
    \/ cleanupTick
    \/ RemoveExpiredRLock(Sweeper)
    \/ RemoveExpiredScan(Sweeper)
    \/ RemoveExpiredRUnlock(Sweeper)
    \/ RemoveExpiredDelete(Sweeper)

\* The steps by which a call a goroutine has started goes on to its return.
\* For All they include the consumer's loop body coming to its end, by
\* continue or by break.
CallStep(p) ==
    \/ SetStore(p)
    \/ AllVisit(p)
    \/ AllContinue(p)
    \/ AllBreak(p)
    \/ AllReturn(p)
    \/ RemoveExpiredScan(p)
    \/ RemoveExpiredRUnlock(p)
    \/ RemoveExpiredDelete(p)
    \/ StopClose(p)
    \/ StopClear(p)

\* The Go scheduler runs every goroutine that can take a step (weak
\* fairness of the cleanup goroutine and of a call in progress), and a
\* select with several ready cases picks one of them uniformly at random,
\* so a stop case that is ready again and again is taken in the end
\* (strong fairness of cleanupStop).  Nothing is assumed of the clock, of
\* the ticker, or of the callers starting calls.
Fairness ==
    /\ WF_vars(cleanupStep)
    /\ SF_vars(cleanupStop)
    /\ WF_vars(CallStep("c1"))

SpecLive == InitWith(MaxLiveOps) /\ [][Next]_vars /\ Fairness

\* sync.RWMutex: a Lock that waits holds back the RLock calls that come
\* after it, so a writer cannot be starved by readers that take turns.
\* The model's lock has no queue; the same is said as strong fairness of
\* a call in progress: a caller whose Lock is free again and again gets it
\* in the end.
FairnessLock ==
    /\ WF_vars(cleanupStep)
    /\ SF_vars(CallStep("c1"))

SpecLiveLock == InitWith(MaxLiveOps) /\ [][Next]_vars /\ FairnessLock

\* ------------------------------------------- calls made inside a traversal
\* The consumer of All may call the map from the body of its loop, that
\* is, between a call of yield and its return (All, line 184), with the
\* read lock of the traversal held by the calling goroutine.  The call runs
\* up to its m.mu.Lock(); the step that takes the lock is the step of the
\* operation itself.  Calls made from a body are not counted in ops.
InBody(p) == p \in Callers /\ pc[p] = "all_yield"

\* Set called from the body, line 117-123: the time is read and the
\* goroutine arrives at m.mu.Lock(); the locals of the traversal stay.
BodySetNow(p, k, v, ttl) ==
    /\ InBody(p)
    /\ pc' = [pc EXCEPT ![p] = "set_store"]
    /\ loc' = [loc EXCEPT ![p].key = k, ![p].value = v,
                          ![p].exp = expiry(now, ttl)]
    /\ ret' = NoRet
    /\ UNCHANGED <<kv, now, readers, stopped, stopCh, active, tickCh,
                   tickerOn, ops, lastSet, closes, clears>>

\* Stop called from the body, line 82: the call that finds the flag set
\* returns at once, into the body; the call that sets it goes on to close
\* m.stop and to m.mu.Lock().
BodyStopCAS(p) ==
    /\ InBody(p)
    /\ IF stopped = 0
       THEN /\ stopped' = 1
            /\ pc' = [pc EXCEPT ![p] = "stop_close"]
            /\ ret' = NoRet
       ELSE /\ stopped' = stopped
            /\ pc' = pc
            /\ ret' = [NoRet EXCEPT !.op = "Stop"]
    /\ UNCHANGED <<kv, now, readers, stopCh, active, tickCh,
                   tickerOn, loc, ops, lastSet, closes, clears>>

\* RemoveExpired called from the body, line 240-249: the scan runs under a
\* second RLock of the goroutine, which its RUnlock gives back, the read
\* lock of the traversal staying held; the goroutine arrives at
\* m.mu.Lock() with the keys it collected.  (With a Lock of another
\* goroutine waiting, the second RLock waits already; the call does not
\* return then either.)
BodyRemoveExpiredScan(p) ==
    /\ InBody(p)
    /\ pc' = [pc EXCEPT ![p] = "re_delete"]
    /\ loc' = [loc EXCEPT ![p].expired =
                  {k \in DOMAIN kv : expired(kv[k], now)}]
    /\ ret' = NoRet
    /\ UNCHANGED <<kv, now, readers, stopped, stopCh, active, tickCh,
                   tickerOn, ops, lastSet, closes, clears>>

\* A goroutine that may call: between calls, or in the body of its loop.
MayCall(p) ==
    \/ Idle(p) /\ ops' = ops - 1
    \/ InBody(p) /\ ops' = ops

\* Update, line 132: the goroutine arrives at m.mu.Lock().
UpdateLock(p, k, v) ==
    /\ MayCall(p)
    /\ pc' = [pc EXCEPT ![p] = "update_lock"]
    /\ loc' = [loc EXCEPT ![p].key = k, ![p].value = v]
    /\ ret' = NoRet
    /\ UNCHANGED <<kv, now, readers, stopped, stopCh, active, tickCh,
                   tickerOn, lastSet, closes, clears>>

\* Update, line 132-140, from the moment it has the lock.
UpdateLocked(p) ==
    /\ pc[p] = "update_lock"
    /\ CanLock
    /\ LET k == loc[p].key
           v == loc[p].value
           hit == k \in DOMAIN kv /\ ~expired(kv[k], now)
       IN /\ kv' = IF hit THEN put(kv, k, entry(v, kv[k].exp)) ELSE kv
          /\ lastSet' = IF hit /\ lastSet[k].set
                        THEN [lastSet EXCEPT ![k].value = v]
                        ELSE lastSet
          /\ ret' = [NoRet EXCEPT !.op = "Update", !.key = k, !.value = v,
                        !.ok = hit,
                        !.nowInLock = (k \in DOMAIN kv
                                         /\ kv[k].exp # ZeroTime)]
    /\ pc' = [pc EXCEPT ![p] = "idle"]
    /\ loc' = [loc EXCEPT ![p] = NoLoc]
    /\ UNCHANGED <<now, readers, stopped, stopCh, active, tickCh, tickerOn,
                   ops, closes, clears>>

\* Delete, line 194: the goroutine arrives at m.mu.Lock().
DeleteLock(p, k) ==
    /\ MayCall(p)
    /\ pc' = [pc EXCEPT ![p] = "delete_lock"]
    /\ loc' = [loc EXCEPT ![p].key = k]
    /\ ret' = NoRet
    /\ UNCHANGED <<kv, now, readers, stopped, stopCh, active, tickCh,
                   tickerOn, lastSet, closes, clears>>

\* Delete, line 194-196, from the moment it has the lock.
DeleteLocked(p) ==
    /\ pc[p] = "delete_lock"
    /\ CanLock
    /\ kv' = remove(kv, {loc[p].key})
    /\ lastSet' = [lastSet EXCEPT ![loc[p].key] = NoLast]
    /\ ret' = [NoRet EXCEPT !.op = "Delete", !.key = loc[p].key,
                            !.ok = loc[p].key \in DOMAIN kv]
    /\ pc' = [pc EXCEPT ![p] = "idle"]
    /\ loc' = [loc EXCEPT ![p] = NoLoc]
    /\ UNCHANGED <<now, readers, stopped, stopCh, active, tickCh, tickerOn,
                   ops, closes, clears>>

\* Clear, line 201: the goroutine arrives at m.mu.Lock().
ClearLock(p) ==
    /\ MayCall(p)
    /\ pc' = [pc EXCEPT ![p] = "clear_lock"]
    /\ ret' = NoRet
    /\ UNCHANGED <<kv, now, readers, stopped, stopCh, active, tickCh,
                   tickerOn, loc, lastSet, closes, clears>>

\* Clear, line 201-203, from the moment it has the lock.
ClearLocked(p) ==
    /\ pc[p] = "clear_lock"
    /\ CanLock
    /\ kv' = emptyMap
    /\ lastSet' = [k \in Keys |-> NoLast]
    /\ ret' = [NoRet EXCEPT !.op = "Clear"]
    /\ pc' = [pc EXCEPT ![p] = "idle"]
    /\ loc' = [loc EXCEPT ![p] = NoLoc]
    /\ UNCHANGED <<now, readers, stopped, stopCh, active, tickCh, tickerOn,
                   ops, closes, clears>>

\* The steps of the program when its one caller also calls the writing
\* operations from the body of its loop; Update, Delete and Clear arrive
\* at the lock in one step and take it in another.
NextNested ==
    \/ \E k \in Keys, v \in Values, ttl \in TTLs : SetNow("c1", k, v, ttl)
    \/ \E k \in Keys, v \in Values, ttl \in TTLs : BodySetNow("c1", k, v, ttl)
    \/ SetStore("c1")
    \/ \E k \in Keys, v \in Values : UpdateLock("c1", k, v)
    \/ UpdateLocked("c1")
    \/ \E k \in Keys : DeleteLock("c1", k)
    \/ DeleteLocked("c1")
    \/ ClearLock("c1")
    \/ ClearLocked("c1")
    \/ AllRLock("c1")
    \/ AllVisit("c1")
    \/ AllContinue("c1")
    \/ AllBreak("c1")
    \/ AllReturn("c1")
    \/ \E p \in {"c1", Sweeper} : RemoveExpiredRLock(p)
    \/ \E p \in {"c1", Sweeper} : RemoveExpiredScan(p)
    \/ \E p \in {"c1", Sweeper} : RemoveExpiredRUnlock(p)
    \/ \E p \in {"c1", Sweeper} : RemoveExpiredDelete(p)
    \/ BodyRemoveExpiredScan("c1")
    \/ StopCAS("c1")
    \/ BodyStopCAS("c1")
    \/ StopClose("c1")
    \/ StopClear("c1")
    \/ cleanupStart
    \/ cleanupStop
    \/ cleanupTick
    \/ Advance
    \/ Tick

SpecNested == Init /\ [][NextNested]_vars

\* =================================================================
\* Properties
\* =================================================================
\* An entry is past its expiration time at t: it has one, and t is
\* strictly after it.
PastExpiry(e, t) == e.exp # ZeroTime /\ t > e.exp

\* The keys of the map that are past their expiration time now.
ExpiredKeys == {k \in DOMAIN kv : PastExpiry(kv[k], now)}

\* ret holds the results of a Get or GetWithExpiration: the step just taken
\* was that call, so kv and now are what the call read.
IsRead == ret.op \in {"Get", "GetWithExpiration"}

\* The maps agree outside the keys of ks.
SameExcept(m1, m2, ks) ==
    /\ (DOMAIN m1) \ ks = (DOMAIN m2) \ ks
    /\ \A j \in (DOMAIN m1) \ ks : m1[j] = m2[j]

\* C1: a key stored by Set with a positive ttl, its expiration time being
\* t0+d, and not touched by a later Set, Delete, Clear or Stop, is reported
\* found with its value by Get and GetWithExpiration at every time <= t0+d
\* and not found, with the zero value, at every time > t0+d.
C1_FoundUntilExpiry ==
    (IsRead /\ lastSet[ret.key].set /\ lastSet[ret.key].exp # ZeroTime)
    => /\ ret.ok <=> now <= lastSet[ret.key].exp
       /\ ret.ok => ret.value = lastSet[ret.key].value
       /\ ~ret.ok => ret.value = ZeroValue /\ ret.exp = ZeroTime

\* C2: RemoveExpired never deletes an entry that is not expired at the
\* moment of the deletion.
C2_NeverDeletesLive ==
    [][\A p \in Procs :
          (pc[p] = "re_delete" /\ pc'[p] = After(p))
          => \A k \in loc[p].expired \cap DOMAIN kv : PastExpiry(kv[k], now)]_vars

\* C3: a key stored by Set with ttl 0 and not touched by a later Set,
\* Delete, Clear or Stop is always reported found, with its value and the
\* zero expiration time.
C3_ZeroTTLNeverExpires ==
    (IsRead /\ lastSet[ret.key].set /\ lastSet[ret.key].exp = ZeroTime)
    => /\ ret.ok
       /\ ret.value = lastSet[ret.key].value
       /\ ret.exp = ZeroTime

\* C4: whatever the number and interleaving of Stop calls, the stop channel
\* is closed at most once and the map replaced at most once, no call
\* panics, nothing of it happens before a Stop call, and once no Stop call
\* is in progress after one was made, both have happened exactly once.
C4_StopOnce ==
    /\ closes <= 1
    /\ clears <= 1
    /\ \A p \in Procs : pc[p] # "panic"
    /\ stopped = 0 => closes = 0 /\ clears = 0 /\ stopCh = "open"
    /\ (stopped = 1 /\ \A p \in Callers : pc[p] \notin {"stop_close", "stop_clear"})
       => closes = 1 /\ clears = 1 /\ stopCh = "closed"

\* A Stop call that lost the race has returned while the call that won is
\* still shutting down.
C4_Witness ==
    /\ ret.op = "Stop"
    /\ ~ret.ok
    /\ \E p \in Callers : pc[p] \in {"stop_close", "stop_clear"}

\* C5, as claimed: in every state after Stop has completed the map is
\* empty.
C5_NeverRepopulated == clears >= 1 => DOMAIN kv = {}

\* C5, amended: the step that completes Stop leaves the map empty;
\* afterwards only Set adds a key, and a Set does add its key.
C5_EmptiedThenOnlySetAdds ==
    [][/\ clears' > clears => DOMAIN kv' = {}
       /\ clears >= 1 =>
            /\ \A k \in (DOMAIN kv') \ (DOMAIN kv) : ret'.op = "Set" /\ ret'.key = k
            /\ ret'.op = "Set" => ret'.key \in DOMAIN kv'
            /\ (ret'.op \in {"Get", "GetWithExpiration", "Update"}
                  /\ ret'.key \notin DOMAIN kv) => ~ret'.ok]_vars

\* A Set made after Stop completed has stored its entry.
C5_Witness ==
    /\ clears = 1
    /\ ret.op = "Set"
    /\ ret.key \in DOMAIN kv

\* C6: once Stop has returned, the cleanup goroutine removes no entry.
C6_NoSweepAfterStop ==
    [][(clears >= 1 /\ pc[Sweeper] = "re_delete" /\ pc'[Sweeper] = "select")
          => kv' = kv]_vars

\* C7: with one call at a time and the clock still during the call,
\* RemoveExpired removes exactly the keys past their expiration time,
\* leaves every other entry as it was, and returns their number.
C7_RemovesExactlyExpired ==
    [][\A p \in Procs :
          (pc[p] = "re_delete" /\ pc'[p] = After(p))
          => /\ DOMAIN kv' = (DOMAIN kv) \ ExpiredKeys
             /\ \A k \in DOMAIN kv' : kv'[k] = kv[k]
             /\ p # Sweeper => ret'.op = "RemoveExpired"
                               /\ ret'.n = Cardinality(ExpiredKeys)]_vars

\* RemoveExpired has returned 1 and left a key that expires exactly now.
C7_Witness ==
    /\ ret.op = "RemoveExpired"
    /\ ret.n = 1
    /\ \E k \in DOMAIN kv : kv[k].exp = now

\* C8: Update on a key that is absent, or present and past its expiration
\* time, returns false and leaves the map as it was.
C8_UpdateMissRejected ==
    [][(ret'.op = "Update"
          /\ (ret'.key \notin DOMAIN kv \/ PastExpiry(kv[ret'.key], now)))
          => ~ret'.ok /\ kv' = kv]_vars

\* Update has returned false for a key still in the map, past its
\* expiration time.
C8_Witness ==
    /\ ret.op = "Update"
    /\ ~ret.ok
    /\ ret.key \in DOMAIN kv
    /\ PastExpiry(kv[ret.key], now)

\* C9: Update on a key that is present and not past its expiration time
\* returns true, gives the key the new value, keeps its expiration time and
\* leaves every other entry and the length of the map as they were.
C9_UpdateChangesValueOnly ==
    [][(ret'.op = "Update"
          /\ ret'.key \in DOMAIN kv /\ ~PastExpiry(kv[ret'.key], now))
          => /\ ret'.ok
             /\ DOMAIN kv' = DOMAIN kv
             /\ kv'[ret'.key].value = ret'.value
             /\ kv'[ret'.key].exp = kv[ret'.key].exp
             /\ SameExcept(kv', kv, {ret'.key})]_vars

\* Update has returned true for a key with an expiration time, beside
\* another key.
C9_Witness ==
    /\ ret.op = "Update"
    /\ ret.ok
    /\ kv[ret.key].value = ret.value
    /\ kv[ret.key].exp # ZeroTime
    /\ Cardinality(DOMAIN kv) = 2

\* C10: the store of Set gives the key the value and the expiration time of
\* this call, whatever entry the key had; the other keys are as they were;
\* the length is unchanged when the key was present and grows by one when
\* it was absent.
C10_SetReplaces ==
    [][\A p \in Callers :
          (pc[p] = "set_store" /\ pc'[p] = "idle")
          => LET k == loc[p].key
             IN /\ k \in DOMAIN kv'
                /\ kv'[k] = [value |-> loc[p].value, exp |-> loc[p].exp]
                /\ SameExcept(kv', kv, {k})
                /\ Cardinality(DOMAIN kv') =
                      Cardinality(DOMAIN kv) + (IF k \in DOMAIN kv THEN 0 ELSE 1)]_vars

\* Set has replaced an entry by one with another value and another
\* expiration time, beside another key.
C10_Witness ==
    /\ ret.op = "Set"
    /\ ret.ok
    /\ kv[ret.key].value # ret.value
    /\ kv[ret.key].exp # ret.exp
    /\ Cardinality(DOMAIN kv) = 2

\* C11: while the map is not stopped, and with every call in progress
\* (an iteration holding the read lock included) coming to its end, a key
\* that is past its expiration time when a tick is in the ticker's channel
\* is in the end no longer in the map as an expired entry: the cleanup
\* goroutine receives the tick and its RemoveExpired pass deletes the key,
\* no call of the callers being needed (a caller may come first and delete
\* the key or store it anew).
C11_TickLeadsToSweep ==
    \A k \in Keys :
        (tickCh = 1 /\ stopped = 0 /\ k \in ExpiredKeys)
        ~> (k \notin ExpiredKeys \/ stopped = 1)

\* The cleanup goroutine, in a map that is not stopped, has collected a key
\* past its expiration time and is about to delete it, no caller being in
\* a call.
C11_Witness ==
    /\ stopped = 0
    /\ pc[Sweeper] = "re_delete"
    /\ loc[Sweeper].expired # {}
    /\ loc[Sweeper].expired \subseteq ExpiredKeys
    /\ \A p \in Callers : pc[p] = "idle"

\* C12: once Stop has been called the cleanup goroutine ends: from some
\* moment on it has left its loop for good, the active flag is 0 and the
\* ticker is stopped, whether ticks keep coming or not and wherever the
\* goroutine was when Stop was called.
C12_SweeperTerminates ==
    (stopped = 1) ~> [](pc[Sweeper] = "exited" /\ active = 0 /\ ~tickerOn)

\* The cleanup goroutine has ended after Stop, with a tick it never
\* received left in the channel.
C12_Witness ==
    /\ stopped = 1
    /\ pc[Sweeper] = "exited"
    /\ active = 0
    /\ tickCh = 1

\* The goroutines inside a section of the read lock that spans steps: the
\* scan of RemoveExpired, a traversal of All.
ReadSection == {p \in Procs : pc[p] \in {"re_scan", "all_loop", "all_yield"}}

\* The step is a section of the write lock: the store of Set, Update,
\* Delete, Clear, the deletion of RemoveExpired, the replacement of the map
\* in Stop.
WriteStep ==
    \/ ret'.op \in {"Set", "Update", "Delete", "Clear"}
    \/ \E p \in Procs : pc[p] = "re_delete" /\ pc'[p] = After(p)
    \/ \E p \in Callers : pc[p] = "stop_clear" /\ pc'[p] = "idle"

\* C13: the goroutines holding the read lock are those inside a read
\* section; a section of the write lock runs, and the map changes, only
\* when no goroutine is inside a read section, and leaves none inside;
\* read sections may overlap.
C13_MutualExclusion ==
    /\ [](readers = ReadSection)
    /\ [][(WriteStep \/ kv' # kv)
            => (ReadSection = {} /\ ReadSection' = {})]_vars

\* A caller's traversal and the scan of the cleanup goroutine hold the read
\* lock together, the map not being empty.
C13_Witness ==
    /\ Cardinality(readers) = 2
    /\ DOMAIN kv # {}

\* The pairs of the entries of the map not past their expiration time.
LivePairs == {<<k, kv[k].value>> : k \in (DOMAIN kv) \ ExpiredKeys}

\* C14: with one call at a time and the clock still during the call, a
\* traversal of All that runs to its end has passed to the consumer exactly
\* the pairs of the entries present and not past their expiration time,
\* each once: no expired entry, and every entry that never expires.
C14_YieldsLiveEntries ==
    [][\A p \in Callers :
          (pc[p] = "all_loop" /\ pc'[p] = "idle")
          => /\ loc[p].yielded = LivePairs
             /\ loc[p].count = Cardinality(DOMAIN kv \ ExpiredKeys)
             /\ ret'.op = "All" /\ ret'.ok /\ ret'.n = loc[p].count
             /\ \A k \in DOMAIN kv :
                   kv[k].exp = ZeroTime => <<k, kv[k].value>> \in loc[p].yielded]_vars

\* A traversal has ended having produced one entry, of a map that holds an
\* entry that never expires and an entry past its expiration time.
C14_Witness ==
    /\ ret.op = "All"
    /\ ret.ok
    /\ ret.n = 1
    /\ ExpiredKeys # {}
    /\ \E k \in DOMAIN kv : kv[k].exp = ZeroTime

C17_StopReturnsEmpty ==
    (ret.op = "Stop"
       /\ \A p \in Callers : pc[p] \notin {"stop_close", "stop_clear"})
    => DOMAIN kv = {}

\* C17, amended: when the Stop call that shuts the map down returns, the
\* map is empty, and until a Set stores an entry again Len returns 0 and
\* Get and GetWithExpiration report every key not found.
C17_ShutdownEmpties ==
    /\ (ret.op = "Stop" /\ ret.ok) => DOMAIN kv = {}
    /\ (clears >= 1 /\ \A k \in Keys : ~lastSet[k].set)
       => /\ DOMAIN kv = {}
          /\ ret.op = "Len" => ret.n = 0
          /\ IsRead => (~ret.ok /\ ret.value = ZeroValue /\ ret.exp = ZeroTime)

\* The Stop call that shuts the map down has returned and the map is
\* empty, while the cleanup goroutine still holds a key of the map it
\* collected before.
C17_Witness ==
    /\ ret.op = "Stop"
    /\ ret.ok
    /\ DOMAIN kv = {}
    /\ loc[Sweeper].expired # {}

\* C18: Get and GetWithExpiration return true, with the stored value (and
\* GetWithExpiration the stored expiration time, zero for an entry that
\* never expires), exactly when the key is in the map and not past its
\* expiration time; otherwise they return false, the zero value and the
\* zero time.
C18_GetReportsLive ==
    IsRead =>
       LET k == ret.key
           live == k \in DOMAIN kv /\ ~PastExpiry(kv[k], now)
       IN /\ ret.ok <=> live
          /\ live => /\ ret.value = kv[k].value
                      /\ ret.op = "GetWithExpiration" => ret.exp = kv[k].exp
          /\ ~live => (ret.value = ZeroValue /\ ret.exp = ZeroTime)

\* GetWithExpiration has found a key at the very time it expires.
C18_Witness ==
    /\ ret.op = "GetWithExpiration"
    /\ ret.ok
    /\ ret.exp = now

\* C19: Len returns the number of keys in the map, the entries past their
\* expiration time that are still in the map included.
C19_LenCountsAll ==
    ret.op = "Len" => ret.n = Cardinality(DOMAIN kv)

\* Len has returned 2 for a map of which a key is past its expiration
\* time.
C19_Witness ==
    /\ ret.op = "Len"
    /\ ret.n = 2
    /\ ExpiredKeys # {}

\* The step is a step of a traversal of All by p: taking the read lock,
\* visiting an entry, the consumer going on or leaving, All returning.
AllStep(p) ==
    /\ <<pc[p], loc[p]>>' # <<pc[p], loc[p]>>
    /\ pc[p] \in {"all_loop", "all_yield"} \/ pc'[p] = "all_loop"

\* C20: Get, GetWithExpiration, Len, Stopped, CleanupActive and every step
\* of a traversal of All leave the map as it was: the same keys, values
\* and expiration times; a read of an expired key leaves the key there.
C20_ReadsLeaveMap ==
    [][(\/ ret'.op \in {"Get", "GetWithExpiration", "Len", "Stopped",
                        "CleanupActive"}
        \/ \E p \in Callers : AllStep(p))
       => kv' = kv]_vars

\* Get has reported not found a key past its expiration time, and the key
\* is still in the map.
C20_Witness ==
    /\ ret.op = "Get"
    /\ ~ret.ok
    /\ ret.key \in ExpiredKeys

\* C21: with one call at a time and the clock still during the call, when
\* a RemoveExpired pass ends no key of the map is past its expiration
\* time, the keys left are those that were not, and the length of the map
\* (what Len returns) is their number.
C21_NoExpiredAfterSweep ==
    [][\A p \in Procs :
          (pc[p] = "re_delete" /\ pc'[p] = After(p))
          => /\ ExpiredKeys' = {}
             /\ DOMAIN kv' = {k \in DOMAIN kv : ~PastExpiry(kv[k], now)}
             /\ Cardinality(DOMAIN kv') =
                   Cardinality({k \in DOMAIN kv' : ~PastExpiry(kv'[k], now')})]_vars

\* A RemoveExpired call has removed the one key past its expiration time
\* and left the key that never expires: the length is 1.
C21_Witness ==
    /\ ret.op = "RemoveExpired"
    /\ ret.n = 1
    /\ Cardinality(DOMAIN kv) = 1
    /\ \A k \in DOMAIN kv : kv[k].exp = ZeroTime /\ lastSet[k].set

\* C22: Delete removes its key whatever the entry was, live, past its
\* expiration time or absent: afterwards the key is not in the map, the
\* other keys have the entries they had, and the length is one less when
\* the key was present and the same when it was not.
C22_DeleteRemovesKey ==
    [][ret'.op = "Delete"
         => LET k == ret'.key
            IN /\ k \notin DOMAIN kv'
               /\ SameExcept(kv', kv, {k})
               /\ ret'.ok <=> k \in DOMAIN kv
               /\ Cardinality(DOMAIN kv') =
                     Cardinality(DOMAIN kv) - (IF k \in DOMAIN kv THEN 1 ELSE 0)]_vars

\* Delete has removed a key that was in the map; the other key, past its
\* expiration time, is still there.
C22_Witness ==
    /\ ret.op = "Delete"
    /\ ret.ok
    /\ ret.key \notin DOMAIN kv
    /\ ExpiredKeys # {}

\* C23: Clear leaves the map empty and nothing else changed: the stopped
\* flag, the stop channel, the active flag, the ticker and the cleanup
\* goroutine are as they were; the cleanup goroutine ends only after Stop,
\* and a Set made afterwards stores its entry.
C23_ClearEmptiesOnly ==
    /\ [](stopped = 0 => (pc[Sweeper] # "exited" /\ stopCh = "open"))
    /\ [][/\ ret'.op = "Clear"
             => /\ DOMAIN kv' = {}
                /\ UNCHANGED <<stopped, stopCh, active, tickerOn, tickCh,
                               closes, clears>>
                /\ pc'[Sweeper] = pc[Sweeper]
          /\ ret'.op = "Set" => ret'.key \in DOMAIN kv']_vars

\* Clear has returned in a map that is not stopped, its cleanup goroutine
\* active and still holding a key it collected before the Clear.
C23_Witness ==
    /\ ret.op = "Clear"
    /\ DOMAIN kv = {}
    /\ stopped = 0
    /\ active = 1
    /\ loc[Sweeper].expired # {}

\* C24: the number a RemoveExpired call returns is the number of keys the
\* call removed from the map, whatever ran beside it.
C24_ReturnsCountRemoved ==
    [][\A p \in Callers :
          (pc[p] = "re_delete" /\ pc'[p] = "idle")
          => /\ ret'.op = "RemoveExpired"
             /\ ret'.n = Cardinality(DOMAIN kv) - Cardinality(DOMAIN kv')]_vars

\* C25: with every traversal of All coming to its end, every call a
\* caller has started returns, in a map that is stopped as in one that is
\* not; no call panics, and a goroutine waiting for the write lock holds
\* no read lock.
C25_CallsReturn ==
    /\ [](\A p \in Procs : pc[p] # "panic")
    /\ [](\A p \in Procs :
             pc[p] \in {"set_store", "re_delete", "stop_clear"}
             => p \notin readers)
    /\ InCall("c1") ~> (pc["c1"] = "idle")

\* A RemoveExpired call made on a stopped map has returned.
C25_Witness ==
    /\ stopped = 1
    /\ clears = 1
    /\ ret.op = "RemoveExpired"

\* C26: RemoveExpired works in two phases and never holds the read lock
\* and the write lock together: it holds the read lock while it scans, has
\* given it up when it asks for the write lock, and its delete phase removes
\* exactly the keys the scan collected, whatever their entries are by then,
\* and no other key.
C26_TwoPhaseRemoval ==
    /\ [](\A p \in Procs :
             /\ pc[p] = "re_scan" => p \in readers
             /\ pc[p] = "re_delete" => p \notin readers)
    /\ [][\A p \in Procs :
             (pc[p] = "re_delete" /\ pc'[p] # "re_delete")
             => /\ DOMAIN kv' = DOMAIN kv \ loc[p].expired
                /\ SameExcept(kv', kv, loc[p].expired)]_vars

\* Between the two phases of the cleanup goroutine's RemoveExpired a Set
\* has run on a key the scan collected, and the entry it stored is live.
C26_Witness ==
    /\ pc[Sweeper] = "re_delete"
    /\ ret.op = "Set"
    /\ ret.key \in loc[Sweeper].expired
    /\ ret.key \in DOMAIN kv
    /\ ~expired(kv[ret.key], now)

\* C27, as stated: no call reads the time source inside a section of the
\* write lock.
C27_NoClockInWriteSection == ~ret.nowInLock

\* C27, amended: Update is the one operation that reads the time source
\* inside a section of the write lock, and it does so exactly when the key
\* is in the map with an expiration time; Set reads the time before it asks
\* for the lock, in a step that leaves the map and the lock alone, and
\* stores the expiration time it computed then; Delete, Clear, the delete
\* phase of RemoveExpired and Stop never read the time.
C27_OnlyUpdateReadsClockInLock ==
    /\ [](ret.nowInLock => ret.op = "Update")
    /\ [][ret'.op = "Update"
            => (ret'.nowInLock <=> /\ ret'.key \in DOMAIN kv
                                   /\ kv[ret'.key].exp # ZeroTime)]_vars
    /\ [][\A p \in Procs :
             /\ (pc[p] = "idle" /\ pc'[p] = "set_store")
                => (kv' = kv /\ readers' = readers)
             /\ (pc[p] = "set_store" /\ pc'[p] = "idle"
                   /\ loc[p].key \in DOMAIN kv')
                => kv'[loc[p].key].exp = loc[p].exp]_vars

\* Update has changed the value of a live entry that has an expiration
\* time, which it tested against the clock under the write lock.
C27_Witness ==
    /\ ret.op = "Update"
    /\ ret.ok
    /\ ret.nowInLock

\* C28: in every step, the expiration time of a key that is in the map
\* before and after the step changes only when the step is the store of a
\* Set on that key; no other operation and no step of the cleanup goroutine
\* changes the expiration time of an entry that stays.
C28_ExpiryChangesOnlyBySet ==
    [][\A k \in DOMAIN kv \cap DOMAIN kv' :
          kv'[k].exp # kv[k].exp => (ret'.op = "Set" /\ ret'.key = k)]_vars

\* RemoveExpired has removed a key, and another key stays with the
\* expiration time its Set gave it.
C28_Witness ==
    /\ ret.op = "RemoveExpired"
    /\ ret.n = 1
    /\ \E k \in DOMAIN kv : /\ kv[k].exp # ZeroTime
                             /\ lastSet[k].set
                             /\ lastSet[k].exp = kv[k].exp

\* C29: the writes to a key are applied one after the other.  The entry
\* of a key has the expiration time of the Set applied last on the key and
\* the value of the Set or Update applied last; the store of a Set writes
\* the value and the expiration time of that one call together; an Update
\* that finds its key writes its value and keeps the expiration time, and
\* an Update that reports false leaves the map as it was.
C29_WritesLinearized ==
    /\ [](\A k \in DOMAIN kv :
             /\ lastSet[k].set
             /\ kv[k] = entry(lastSet[k].value, lastSet[k].exp))
    /\ [][\A p \in Callers :
             (pc[p] = "set_store" /\ pc'[p] = "idle")
             => /\ kv' = put(kv, loc[p].key,
                             entry(loc[p].value, loc[p].exp))
                /\ ret'.op = "Set"]_vars
    /\ [][ret'.op = "Update"
            => kv' = IF ret'.ok
                     THEN put(kv, ret'.key,
                              entry(ret'.value, kv[ret'.key].exp))
                     ELSE kv]_vars

\* A Set has been applied to a key while the Set of another caller on the
\* same key, with another value and another expiration time, waits for the
\* lock.
C29_Witness ==
    /\ ret.op = "Set"
    /\ \E p \in Callers :
          /\ pc[p] = "set_store"
          /\ loc[p].key = ret.key
          /\ loc[p].value # kv[ret.key].value
          /\ loc[p].exp # kv[ret.key].exp

\* C30: the expiration time Set computes from the time t it reads and its
\* ttl is t + ttl exactly when ttl > 0, and the zero time, which stands for
\* no expiration, for every ttl <= 0, negative ones included; an entry
\* with the zero time is expired at no time.  The step of Set that reads
\* the time computes it from the clock as it is then, and the store writes
\* the time so computed, whatever the clock shows by then; Get and
\* GetWithExpiration find an entry without expiration whenever called.
C30_SetExpiry ==
    /\ [](\A t \in 1..MaxTime : \A d \in TTLs :
             /\ d > 0 => (expiry(t, d) = t + d /\ expiry(t, d) # ZeroTime)
             /\ d <= 0 => /\ expiry(t, d) = ZeroTime
                          /\ \A u \in 0..(MaxTime + MaxTTL), v \in Values :
                                ~expired(entry(v, expiry(t, d)), u))
    /\ [][\A p \in Callers :
             /\ (pc[p] = "idle" /\ pc'[p] = "set_store")
                => loc'[p].exp \in {ZeroTime} \cup {now + d : d \in 1..MaxTTL}
             /\ (pc[p] = "set_store" /\ pc'[p] = "idle")
                => kv'[loc[p].key].exp = loc[p].exp]_vars
    /\ [][(/\ ret'.op \in {"Get", "GetWithExpiration"}
           /\ ret'.key \in DOMAIN kv
           /\ kv[ret'.key].exp = ZeroTime) => ret'.ok]_vars

\* A Set that read the time before the clock moved on has stored the
\* expiration time it computed then, and the entry it replaced had none.
C30_Witness ==
    /\ ret.op = "Set"
    /\ ret.ok
    /\ ret.exp = ZeroTime
    /\ kv[ret.key].exp # ZeroTime
    /\ kv[ret.key].exp < now

\* C31: the cleanup goroutine goes one way, from running to stopped.  The
\* active flag is 0 at construction, 1 from the moment the goroutine has
\* created its ticker and waits in the select, and 0 once it has returned;
\* the flag is set only by the start of the goroutine and cleared only by
\* its return, which happens only with m.stop closed and stops the ticker;
\* a goroutine that has returned stays so, the flag 0 and the ticker
\* stopped, and the ticker is stopped by no other step.
C31_SweeperOneWay ==
    /\ [](/\ (active = 1) <=> (pc[Sweeper] \notin {"start", "exited"})
          /\ tickerOn <=> (active = 1)
          /\ (pc[Sweeper] = "exited") => (stopCh = "closed"))
    /\ [][/\ (active = 0 /\ active' = 1)
             => (pc[Sweeper] = "start" /\ pc'[Sweeper] = "select")
          /\ (active = 1 /\ active' = 0)
             => (/\ pc[Sweeper] = "select"
                 /\ pc'[Sweeper] = "exited"
                 /\ stopCh = "closed"
                 /\ tickerOn
                 /\ ~tickerOn')
          /\ (tickerOn /\ ~tickerOn') => (active = 1 /\ active' = 0)
          /\ (pc[Sweeper] = "exited")
             => (pc'[Sweeper] = "exited" /\ active' = 0 /\ ~tickerOn')]_vars

\* The cleanup goroutine has returned with a tick left in the channel of
\* its ticker, and a call of CleanupActive made afterwards reports false.
C31_Witness ==
    /\ pc[Sweeper] = "exited"
    /\ tickCh = 1
    /\ ret.op = "CleanupActive"
    /\ ~ret.ok

\* C32: Stopped reports the flag m.stopped.  The flag is 0 as long as no
\* Stop call has begun: then m.stop has not been closed, the map has not
\* been replaced, no goroutine is inside Stop and none has returned from
\* it.  It is 1 when a Stop call returns.  The only step that changes it
\* is the first step of a Stop call, from 0 to 1, so that it never goes
\* back to 0; a call of Stopped reports it and leaves it alone.
C32_StoppedFlag ==
    /\ []((stopped = 0)
            => (/\ closes = 0
                /\ clears = 0
                /\ \A p \in Procs : pc[p] \notin {"stop_close", "stop_clear"}
                /\ ret.op # "Stop"))
    /\ []((ret.op = "Stop") => Stopped)
    /\ [][/\ (stopped' # stopped)
             => (/\ stopped = 0
                 /\ stopped' = 1
                 /\ \E p \in Callers : /\ pc[p] = "idle"
                                        /\ pc'[p] = "stop_close")
          /\ (ret'.op = "Stopped")
             => (/\ ret'.ok <=> (stopped = 1)
                 /\ stopped' = stopped)]_vars

\* After a Stop call has returned and a Set has stored a key, a call of
\* Stopped reports true.
C32_Witness ==
    /\ ret.op = "Stopped"
    /\ ret.ok
    /\ clears = 1
    /\ kv # emptyMap

\* C33: a traversal of All holds the read lock it took at its start,
\* without giving it up, until it ends; meanwhile no section of the write
\* lock runs and the map stays as it is, so that at every yield the pairs
\* yielded before are still in the map with the values they had and the
\* keys still to visit are keys of the map; a pair is yielded only for a
\* key that is in the map, with its value, and not past its expiration
\* time at that moment.
C33_OneReadSectionPerTraversal ==
    /\ [](\A p \in Callers :
             (pc[p] \in {"all_loop", "all_yield"})
             => (/\ p \in readers
                 /\ loc[p].todo \subseteq DOMAIN kv
                 /\ \A y \in loc[p].yielded :
                       y[1] \in DOMAIN kv /\ kv[y[1]].value = y[2]))
    /\ []((ret.op = "yield")
            => (/\ ret.key \in DOMAIN kv
                /\ kv[ret.key].value = ret.value
                /\ ~PastExpiry(kv[ret.key], now)))
    /\ [][\A p \in Callers :
             (pc[p] \in {"all_loop", "all_yield"})
             => (/\ kv' = kv
                 /\ lastSet' = lastSet
                 /\ (p \in readers') <=> (pc'[p] \in {"all_loop", "all_yield"})
                 /\ (pc'[p] \in {"all_loop", "all_yield"})
                    => (loc[p].yielded \subseteq loc'[p].yielded))]_vars

\* A traversal is at its second yield while the RemoveExpired of the
\* cleanup goroutine, its scan done, waits for the write lock.
C33_Witness ==
    /\ pc["c1"] = "all_yield"
    /\ ret.op = "yield"
    /\ loc["c1"].count = 2
    /\ pc[Sweeper] = "re_delete"

\* C34: when a Stop call returns, the call that lost the race to another
\* Stop call included, Stop has replaced the map and Stopped reports true;
\* and whenever a call of Stopped reports true, Stop has replaced the map.
C34_StopReturnsAfterShutdown ==
    /\ (ret.op = "Stop") => (clears = 1 /\ Stopped)
    /\ (ret.op = "Stopped" /\ ret.ok) => (clears = 1)

\* The operations that take the write lock.
WriterOps == {"Set", "Update", "Delete", "Clear", "RemoveExpired", "Stop"}

\* The goroutine is inside a call it made from the body of its loop, on
\* its way to m.mu.Lock() or waiting there, the read lock of its traversal
\* held.
InBodyCall(p) ==
    /\ p \in readers
    /\ pc[p] \in {"set_store", "update_lock", "delete_lock", "clear_lock",
                  "re_delete", "stop_close", "stop_clear"}

\* C35, as stated: no call of a writing operation made from the body of
\* the loop returns into the body.
C35_BodyWriterNeverReturns ==
    \A p \in Callers : ~(pc[p] = "all_yield" /\ ret.op \in WriterOps)

\* C35, amended: a call of Set, Update, Delete, Clear or RemoveExpired made
\* from the body of the loop, and a call of Stop made there on a map that
\* is not stopped, arrives at m.mu.Lock() holding the read lock of the
\* traversal and stays there: whatever the other goroutines do, it never
\* gets the lock, never returns, the traversal never goes on or ends, the
\* read lock is never given back and the map never changes again.  The one
\* call that returns into the body is a Stop on a map already stopped,
\* which does nothing.
C35_BodyWriterBlocks ==
    /\ [](\A p \in Callers :
             (pc[p] = "all_yield" /\ ret.op \in WriterOps)
             => (ret.op = "Stop" /\ ~ret.ok /\ Stopped))
    /\ [](\A p \in Callers :
             (InBodyCall(p) /\ pc[p] # "stop_close") => ~CanLock)
    /\ [][\A p \in Callers :
             /\ InBodyCall(p)
                => (/\ InBodyCall(p)'
                    /\ kv' = kv
                    /\ loc'[p] = loc[p]
                    /\ (pc'[p] # pc[p]) => (pc[p] = "stop_close"
                                             /\ pc'[p] = "stop_clear"))
             /\ (InBody(p) /\ pc'[p] \notin {"all_yield", "all_loop", "idle"})
                => InBodyCall(p)']_vars

\* A Set called from the body of the loop waits for the lock, and so does
\* the RemoveExpired of the cleanup goroutine with the keys it collected.
C35_Witness ==
    /\ pc["c1"] = "set_store"
    /\ "c1" \in readers
    /\ pc[Sweeper] = "re_delete"
    /\ loc[Sweeper].expired # {}

====
